---- MODULE Spec2Model ----
(***************************************************************************)
(* Delay-coordinate embedding (crate delay-coord, src/lib.rs).             *)
(*                                                                         *)
(* A ForwardDelayCoordinates geometry (delay, dimension) maps a logical    *)
(* index to a physical offset in a window; ForwardMapping slides that      *)
(* window over a borrowed slice and hands out one DelayMappedView per      *)
(* step; a view is read through get / index / to_vec / to_flatten_vec /    *)
(* iter.                                                                   *)
(*                                                                         *)
(* usize is modelled with its width: arithmetic that leaves                *)
(* 0 .. USIZE-1 panics in a build with overflow checks (debug) and wraps   *)
(* modulo USIZE in a build without them (release).  The build is a         *)
(* parameter of a run, chosen in Init.                                     *)
(*                                                                         *)
(* Option<T> is modelled as a sequence: None is <<>>, Some(x) is <<x>>.    *)
(* Slices and Vecs are sequences (1-based here, 0-based in the source).    *)
(***************************************************************************)
EXTENDS Integers, Sequences, FiniteSets, TLC

VARIABLES
    overflow_checks,  \* build configuration: TRUE = arithmetic overflow panics
    data,             \* the source sequence handed to mapping_iter
    comps,            \* component count of a sample; 0 = the sample type is a scalar
    coord,            \* the ForwardDelayCoordinates value [delay, dimension]
    pc,               \* "start" | "iter" (a ForwardMapping exists) | "view" (a bare view)
    slice,            \* ForwardMapping.slice: the remaining suffix of data
    last,             \* Option of the view returned by the latest ForwardMapping::next
    yielded,          \* number of views returned so far
    exhausted,        \* a call of ForwardMapping::next has returned None
    extra,            \* calls of ForwardMapping::next made after the first None
    res,              \* the latest result of an operation on the geometry or the view
    viter,            \* Option of the DelayMappedViewIter over the current view
    panicked          \* the thread has panicked (fatal fault)

vars == << overflow_checks, data, comps, coord, pc, slice, last, yielded,
           exhausted, extra, res, viter, panicked >>

----------------------------------------------------------------------------
(* Bounds of the model *)

MaxLen == 10
MaxDim == 3
MaxDelay == 5
MaxComp == 2
MaxExtra == 2
UsizeBits == 16

USIZE == 2 ^ UsizeBits

None == << >>
Some(x) == << x >>

NoRes == [op |-> "none", arg |-> 0, val |-> None]

----------------------------------------------------------------------------
(* Source sequences.  The library is generic in the sample type T and     *)
(* never inspects a sample, so the inputs are the scalar ramp 0, 1, 2...  *)
(* (as in test_forward_coord), samples vec![n; c] (as in                  *)
(* test_forward_coord_multi) and samples with pairwise distinct           *)
(* components.                                                            *)

ScalarData(n) == [k \in 1..n |-> k - 1]
RepeatData(n, c) == [k \in 1..n |-> [j \in 1..c |-> k - 1]]
DistinctData(n, c) == [k \in 1..n |-> [j \in 1..c |-> (k - 1) * c + (j - 1)]]

----------------------------------------------------------------------------
(* usize arithmetic *)

wrap(x) == x % USIZE
overflows(x) == x < 0 \/ x >= USIZE

----------------------------------------------------------------------------
(* ForwardDelayCoordinates *)

\* variant: the +1 forgotten
window_size_wrong(c) == wrap(wrap(wrap(c.dimension - 1) * c.delay))

\* fn window_size: (self.dimension-1)*self.delay+1
window_size(c) == wrap(wrap(wrap(c.dimension - 1) * c.delay) + 1)

\* the arithmetic of window_size leaves the range of usize
window_size_overflows(c) ==
    \/ overflows(c.dimension - 1)
    \/ overflows(wrap(c.dimension - 1) * c.delay)
    \/ overflows(wrap(wrap(c.dimension - 1) * c.delay) + 1)

\* variant: oldest-first order, index*delay
map_coord_backward(c, index) ==
    IF index < c.dimension THEN Some(wrap(index * c.delay)) ELSE None

\* variant: the -1 forgotten
map_coord_shifted(c, index) ==
    IF index < c.dimension
    THEN Some(wrap(wrap(c.dimension - index) * c.delay))
    ELSE None

\* variant: the index not subtracted
map_coord_const(c, index) ==
    IF index < c.dimension
    THEN Some(wrap(wrap(c.dimension - 1) * c.delay))
    ELSE None

\* fn map_coord: Some((self.dimension-index-1)*self.delay) if index < dimension
map_coord(c, index) ==
    IF index < c.dimension
    THEN Some(wrap(wrap(wrap(c.dimension - index) - 1) * c.delay))
    ELSE None

map_coord_overflows(c, index) ==
    /\ index < c.dimension
    /\ overflows(wrap(wrap(c.dimension - index) - 1) * c.delay)

----------------------------------------------------------------------------
(* DelayMappedView: a record [coord, slice] *)

\* variant: bound check off by one
slice_get_short(s, pos) == IF pos + 1 < Len(s) THEN Some(s[pos + 1]) ELSE None

\* <[T]>::get
slice_get(s, pos) == IF pos < Len(s) THEN Some(s[pos + 1]) ELSE None

\* fn get: self.coord.map_coord(index).and_then(|pos| self.slice.get(pos))
get(view, index) ==
    LET m == map_coord(view.coord, index)
    IN  IF m = None THEN None ELSE slice_get(view.slice, m[1])

get_panics(view, index) ==
    overflow_checks /\ map_coord_overflows(view.coord, index)

\* fn index: self.get(index).unwrap() -- panics on None
index_panics(view, index) ==
    get_panics(view, index) \/ get(view, index) = None

\* fn to_vec: (0..dimension).map(|index| self[index].clone()).collect()
to_vec_panics(view) ==
    \E i \in 0 .. view.coord.dimension - 1 : index_panics(view, i)

to_vec(view) ==
    [i \in 1 .. view.coord.dimension |-> get(view, i - 1)[1]]

RECURSIVE flatten(_)
flatten(ss) == IF ss = << >> THEN << >> ELSE Head(ss) \o flatten(Tail(ss))

\* variant: only the first component of each sample
to_flatten_vec_heads(view) ==
    [i \in 1 .. view.coord.dimension |-> to_vec(view)[i][1]]

\* fn to_flatten_vec: the same map, then .flatten().collect()
to_flatten_vec(view) == flatten(to_vec(view))

----------------------------------------------------------------------------
(* Initial states *)

Coords == [delay : 0 .. MaxDelay, dimension : 0 .. MaxDim]

\* the source sequence and the component count of its samples
Inputs ==
    \E n \in 0 .. MaxLen :
        \/ data = ScalarData(n) /\ comps = 0
        \/ \E c \in 1 .. MaxComp :
            /\ comps = c
            /\ data = RepeatData(n, c) \/ data = DistinctData(n, c)

\* a geometry and a source sequence exist; mapping_iter has not been called
\* (the struct literal of ForwardDelayCoordinates validates nothing)
Init ==
    /\ overflow_checks \in BOOLEAN
    /\ coord \in Coords
    /\ Inputs
    /\ pc = "start"
    /\ slice = << >>
    /\ last = None
    /\ yielded = 0
    /\ exhausted = FALSE
    /\ extra = 0
    /\ res = NoRes
    /\ viter = None
    /\ panicked = FALSE

----------------------------------------------------------------------------
(* Panics.  A panic is fatal: the thread unwinds and nothing runs after.  *)
(* res records the operation that panicked.                               *)

Panic(op, arg) ==
    /\ panicked' = TRUE
    /\ res' = [op |-> op, arg |-> arg, val |-> None]
    /\ UNCHANGED << overflow_checks, data, comps, coord, pc, slice, last,
                    yielded, exhausted, extra, viter >>

----------------------------------------------------------------------------
(* Operations on the geometry alone *)

\* coord.window_size()
CallWindowSize ==
    /\ ~panicked /\ pc = "start"
    /\ IF overflow_checks /\ window_size_overflows(coord)
       THEN Panic("window_size", 0)
       ELSE /\ res' = [op |-> "window_size", arg |-> 0, val |-> window_size(coord)]
            /\ UNCHANGED << overflow_checks, data, comps, coord, pc, slice, last,
                            yielded, exhausted, extra, viter, panicked >>

\* coord.map_coord(i)
CallMapCoord(i) ==
    /\ ~panicked /\ pc = "start"
    /\ IF overflow_checks /\ map_coord_overflows(coord, i)
       THEN Panic("map_coord", i)
       ELSE /\ res' = [op |-> "map_coord", arg |-> i, val |-> map_coord(coord, i)]
            /\ UNCHANGED << overflow_checks, data, comps, coord, pc, slice, last,
                            yielded, exhausted, extra, viter, panicked >>

----------------------------------------------------------------------------
(* ForwardMapping *)

\* fn mapping_iter: evaluates window_size(), then borrows the whole slice
MappingIter ==
    /\ ~panicked /\ pc = "start"
    /\ IF overflow_checks /\ window_size_overflows(coord)
       THEN Panic("mapping_iter", 0)
       ELSE /\ pc' = "iter"
            /\ slice' = data
            /\ res' = NoRes
            /\ UNCHANGED << overflow_checks, data, comps, coord, last, yielded,
                            exhausted, extra, viter, panicked >>

\* variant: <= in place of <
next_is_none_le(s, c) == Len(s) <= window_size(c)

\* ForwardMapping::next, the test  self.slice.len() < self.coord.window_size()
next_is_none(s, c) == Len(s) < window_size(c)

\* &self.slice[0..window_size] is out of bounds
next_view_panics(s, c) == window_size(c) > Len(s)

\* DelayMappedView { coord: self.coord, slice: &self.slice[0..window_size] }
next_view(s, c) == [coord |-> c, slice |-> SubSeq(s, 1, window_size(c))]

\* &self.slice[1..] is out of bounds
next_rest_panics(s) == Len(s) < 1

\* variant: advance by a whole window
next_rest_window(s, c) == SubSeq(s, window_size(c) + 1, Len(s))

\* self.slice = &self.slice[1..]
next_rest(s, c) == Tail(s)

\* fn next of ForwardMapping.  Calls after the first None are bounded by MaxExtra.
ForwardMappingNext ==
    /\ ~panicked /\ pc = "iter"
    /\ exhausted => extra < MaxExtra
    /\ IF overflow_checks /\ window_size_overflows(coord)
       THEN Panic("next", 0)
       ELSE IF next_is_none(slice, coord)
       THEN /\ last' = None
            /\ exhausted' = TRUE
            /\ extra' = IF exhausted THEN extra + 1 ELSE extra
            /\ res' = NoRes
            /\ viter' = None
            /\ UNCHANGED << overflow_checks, data, comps, coord, pc, slice,
                            yielded, panicked >>
       ELSE IF next_view_panics(slice, coord) \/ next_rest_panics(slice)
       THEN Panic("next", 0)
       ELSE /\ last' = Some(next_view(slice, coord))
            /\ slice' = next_rest(slice, coord)
            /\ yielded' = yielded + 1
            /\ extra' = IF exhausted THEN extra + 1 ELSE extra
            /\ res' = NoRes
            /\ viter' = None
            /\ UNCHANGED << overflow_checks, data, comps, coord, pc, exhausted,
                            panicked >>

----------------------------------------------------------------------------
(* Operations on the view in hand.  The consumer performs one at a time:  *)
(* each overwrites res, and an iterator is dropped before the next        *)
(* operation on the view.                                                 *)

HasView == ~panicked /\ last # None
View == last[1]

Indices == 0 .. MaxDim + 1

Done(op, arg, val) ==
    /\ res' = [op |-> op, arg |-> arg, val |-> val]
    /\ viter' = None
    /\ UNCHANGED << overflow_checks, data, comps, coord, pc, slice, last,
                    yielded, exhausted, extra, panicked >>

\* view.get(i)
CallGet(i) ==
    /\ HasView
    /\ IF get_panics(View, i)
       THEN Panic("get", i)
       ELSE Done("get", i, get(View, i))

\* view[i]
CallIndex(i) ==
    /\ HasView
    /\ IF index_panics(View, i)
       THEN Panic("index", i)
       ELSE Done("index", i, get(View, i)[1])

\* view.to_vec()
CallToVec ==
    /\ HasView
    /\ IF to_vec_panics(View)
       THEN Panic("to_vec", 0)
       ELSE Done("to_vec", 0, to_vec(View))

\* view.to_flatten_vec(), for a sample type that is IntoIterator
CallToFlattenVec ==
    /\ HasView /\ comps > 0
    /\ IF to_vec_panics(View)
       THEN Panic("to_flatten_vec", 0)
       ELSE Done("to_flatten_vec", 0, to_flatten_vec(View))

\* fn iter: DelayMappedViewIter { view: self, index: 0 }
CallIter ==
    /\ HasView
    /\ viter' = Some([index |-> 0, out |-> << >>])
    /\ res' = NoRes
    /\ UNCHANGED << overflow_checks, data, comps, coord, pc, slice, last,
                    yielded, exhausted, extra, panicked >>

\* variant: index advanced before the read
viter_item_skip(view, index) == get(view, index + 1)

\* DelayMappedViewIter::next, let item = self.view.get(self.index)
viter_item(view, index) == get(view, index)

\* fn next of DelayMappedViewIter; out collects what the calls returned.
\* Calls past the end are bounded by MaxExtra.
ViterNext ==
    /\ HasView /\ viter # None
    /\ viter[1].index < coord.dimension + MaxExtra
    /\ IF get_panics(View, viter[1].index)
          \/ (overflow_checks /\ overflows(viter[1].index + 1))
       THEN Panic("viter_next", viter[1].index)
       ELSE /\ viter' = Some([index |-> wrap(viter[1].index + 1),
                              out |-> Append(viter[1].out,
                                             viter_item(View, viter[1].index))])
            /\ UNCHANGED << overflow_checks, data, comps, coord, pc, slice, last,
                            yielded, exhausted, extra, res, panicked >>

----------------------------------------------------------------------------
(* The program: a geometry, one mapping iterator over the data, and a     *)
(* consumer of its views.                                                 *)

Next ==
    \/ CallWindowSize
    \/ \E i \in Indices : CallMapCoord(i)
    \/ MappingIter
    \/ ForwardMappingNext
    \/ \E i \in Indices : CallGet(i)
    \/ \E i \in Indices : CallIndex(i)
    \/ CallToVec
    \/ CallToFlattenVec
    \/ CallIter
    \/ ViterNext

Spec == Init /\ [][Next]_vars

----------------------------------------------------------------------------
(* A view on its own: get and index are total functions of a view, and a  *)
(* view is any pair of a geometry and a slice (the struct has no          *)
(* invariant of its own; fn get guards the slice access itself).          *)

InitView ==
    /\ overflow_checks \in BOOLEAN
    /\ coord \in Coords
    /\ Inputs
    /\ pc = "view"
    /\ slice = << >>
    /\ last = Some([coord |-> coord, slice |-> data])
    /\ yielded = 0
    /\ exhausted = FALSE
    /\ extra = 0
    /\ res = NoRes
    /\ viter = None
    /\ panicked = FALSE

NextView ==
    \/ \E i \in Indices : CallGet(i)
    \/ \E i \in Indices : CallIndex(i)
    \/ CallToVec
    \/ CallToFlattenVec
    \/ CallIter
    \/ ViterNext

SpecView == InitView /\ [][NextView]_vars

----------------------------------------------------------------------------
(* Properties.  They are stated with unbounded integer arithmetic on the  *)
(* geometry and with positions in data, not with the operators above.     *)

N == Len(data)
Dim == coord.dimension
Delay == coord.delay
\* (dimension-1)*delay+1 over the integers
WS == (Dim - 1) * Delay + 1
\* 0-based position in data at which the window of the view in hand starts
K == yielded - 1
\* the sample at logical index i of the k-th view
Sample(k, i) == data[k + (Dim - 1 - i) * Delay + 1]

\* C1: for dimension >= 1 and delay >= 0, calling next() on a fresh
\* ForwardMapping until it first returns None yields exactly N - window_size + 1
\* views when window_size <= N and none when window_size > N, and the
\* iterator does not fault.
C1_ViewCount ==
    (pc = "iter" /\ Dim >= 1) =>
        /\ ~(panicked /\ res.op \in {"mapping_iter", "next"})
        /\ yielded <= (IF WS <= N THEN N - WS + 1 ELSE 0)
        /\ exhausted => yielded = (IF WS <= N THEN N - WS + 1 ELSE 0)

C1_Witness ==
    /\ pc = "iter" /\ exhausted /\ ~panicked
    /\ N = 10 /\ Dim = 3 /\ Delay = 2 /\ yielded = 6

\* C2: for dimension >= 1 and delay >= 1 the k-th view's to_vec() is
\* [ s[k + (dimension-1-i)*delay] : i = 0 .. dimension-1 ]: length dimension,
\* newest sample of the window first, oldest (s[k]) last, consecutive views
\* one source position apart.
C2_ToVec ==
    (pc = "iter" /\ res.op = "to_vec" /\ Dim >= 1 /\ Delay >= 1) =>
        /\ ~panicked
        /\ Len(res.val) = Dim
        /\ \A i \in 0 .. Dim - 1 : res.val[i + 1] = Sample(K, i)
        /\ res.val[1] = data[K + WS]
        /\ res.val[Dim] = data[K + 1]

C2_Witness ==
    /\ pc = "iter" /\ comps = 0 /\ N = 10 /\ Dim = 3 /\ Delay = 2
    /\ res.op = "to_vec" /\ ~panicked /\ yielded = 6
    /\ res.val = << 9, 7, 5 >>

\* C3: for samples of c components, dimension >= 1 and delay >= 1,
\* to_flatten_vec() of the k-th view is the concatenation over
\* i = 0 .. dimension-1 of sample s[k + (dimension-1-i)*delay] in its own
\* order, of length dimension * c.
C3_Flatten ==
    (pc = "iter" /\ res.op = "to_flatten_vec" /\ Dim >= 1 /\ Delay >= 1) =>
        /\ ~panicked
        /\ Len(res.val) = Dim * comps
        /\ \A i \in 0 .. Dim - 1 : \A j \in 1 .. comps :
              res.val[i * comps + j] = Sample(K, i)[j]

C3_Witness ==
    /\ pc = "iter" /\ comps = 2 /\ N = 10 /\ Dim = 2 /\ Delay = 5
    /\ res.op = "to_flatten_vec" /\ ~panicked /\ yielded = 5
    /\ res.val = << 9, 9, 4, 4 >>

\* C4: for dimension >= 1 and delay >= 0, map_coord(i) is None when
\* i >= dimension and Some((dimension-i-1)*delay), a value in
\* [0, window_size), when i < dimension.
C4_MapCoord ==
    (res.op = "map_coord" /\ Dim >= 1) =>
        /\ ~panicked
        /\ res.arg >= Dim => res.val = None
        /\ res.arg < Dim =>
              /\ res.val = Some((Dim - res.arg - 1) * Delay)
              /\ 0 <= res.val[1] /\ res.val[1] < WS

C4_Witness ==
    /\ res.op = "map_coord" /\ ~panicked
    /\ Dim = 3 /\ Delay = 2 /\ res.arg = 0 /\ res.val = Some(4)

\* C5 as stated: for dimension >= 1 and delay >= 0, map_coord is injective
\* over [0, dimension).
C5_InjectiveAnyDelay ==
    (res.op = "map_coord" /\ ~panicked /\ Dim >= 1 /\ res.arg < Dim) =>
        \A j \in 0 .. Dim - 1 :
            j # res.arg => map_coord(coord, j) # res.val

\* C5 amended: for dimension >= 1 and delay >= 1 (window_size within usize),
\* map_coord is injective over [0, dimension).
C5_Injective ==
    (res.op = "map_coord" /\ ~panicked /\ Dim >= 1 /\ Delay >= 1
        /\ res.arg < Dim) =>
        \A j \in 0 .. Dim - 1 :
            j # res.arg => map_coord(coord, j) # res.val

C5_Witness ==
    /\ res.op = "map_coord" /\ ~panicked
    /\ Dim = 3 /\ Delay = 1 /\ res.arg = 1 /\ res.val = Some(1)

\* C6: with dimension = 0, for any delay and any N, window_size() is 0, the
\* mapping iterator emits exactly N views and then ends, and nothing faults.
C6_DimensionZero ==
    Dim = 0 =>
        /\ ~panicked
        /\ res.op = "window_size" => res.val = 0
        /\ pc = "iter" => yielded <= N
        /\ exhausted => yielded = N

\* C7: get(i) never faults and is None when i >= dimension or the mapped
\* offset is >= the slice length, and the element at the mapped offset
\* otherwise; view[i] is that same element when get(i) is present and
\* panics exactly when get(i) is absent.
C7_GetIndex ==
    LET off == (Dim - res.arg - 1) * Delay
        present == res.arg < Dim /\ off < Len(View.slice)
    IN  /\ res.op = "get" =>
              /\ ~panicked
              /\ res.val = (IF present THEN Some(View.slice[off + 1]) ELSE None)
        /\ res.op = "index" =>
              /\ panicked <=> ~present
              /\ ~panicked => res.val = View.slice[off + 1]

C7_Witness ==
    /\ pc = "view" /\ res.op = "get" /\ ~panicked
    /\ res.arg < Dim /\ (Dim - res.arg - 1) * Delay >= Len(View.slice)
    /\ Len(View.slice) >= 1
    /\ res.val = None

\* C8: for dimension >= 1, once ForwardMapping::next has returned None every
\* later call returns None; a call that returns None leaves the remaining
\* slice and the geometry unchanged; a call that returns a view removes
\* exactly one element from the front of the remaining slice.
C8_Exhaustion ==
    [][ (ForwardMappingNext /\ Dim >= 1) =>
            /\ ~panicked'
            /\ exhausted => last' = None
            /\ last' = None => (slice' = slice /\ coord' = coord)
            /\ last' # None =>
                  (slice' = Tail(slice) /\ Len(slice') = Len(slice) - 1
                   /\ yielded' = yielded + 1) ]_vars

C8_Witness ==
    /\ pc = "iter" /\ Dim >= 2 /\ Delay >= 1 /\ ~panicked
    /\ exhausted /\ extra = MaxExtra /\ yielded >= 2 /\ last = None
    /\ Len(slice) = WS - 1

\* C9: for a view produced by the mapping iterator (dimension >= 1), iter()
\* yields exactly dimension references, the j-th being the element at logical
\* index j, then None, and None again on every further call.
C9_ViewIter ==
    (pc = "iter" /\ viter # None /\ Dim >= 1) =>
        /\ ~(panicked /\ res.op = "viter_next")
        /\ viter[1].index = Len(viter[1].out)
        /\ \A j \in 1 .. Len(viter[1].out) :
              viter[1].out[j] =
                  (IF j <= Dim THEN Some(Sample(K, j - 1)) ELSE None)

C9_Witness ==
    /\ pc = "iter" /\ viter # None /\ ~panicked
    /\ Dim = 3 /\ Delay = 2 /\ yielded = 2
    /\ Len(viter[1].out) = Dim + MaxExtra

\* C10: for dimension >= 1 and delay >= 0 every view emitted by
\* ForwardMapping::next holds a slice of length exactly window_size, get(i)
\* is present for every i < dimension, to_vec() and to_flatten_vec() do not
\* panic on it, and neither slicing expression in next goes out of bounds.
C10_ViewLength ==
    (pc = "iter" /\ Dim >= 1) =>
        /\ last # None =>
              /\ Len(View.slice) = WS
              /\ \A i \in 0 .. Dim - 1 :
                    /\ (Dim - i - 1) * Delay < Len(View.slice)
                    /\ get(View, i) # None
        /\ ~(panicked /\ res.op \in {"to_vec", "to_flatten_vec", "next"})

C10_Witness ==
    /\ pc = "iter" /\ Dim = 3 /\ Delay = 0 /\ N >= 2 /\ yielded = N
    /\ res.op = "to_vec" /\ ~panicked

====
